---- MODULE Spec2Model ----
(***************************************************************************)
(* Model of kafkatest.Server (src/kafkatest/server.go): the handler        *)
(* registry, the server lifecycle (Start / Close / accept loop), the       *)
(* per-connection read-dispatch-write loop and the default responder.      *)
(***************************************************************************)
EXTENDS Integers, Sequences, FiniteSets, TLC

(* ---- request kinds (server.go:14-23) ---- *)
AnyRequest == -1
ProduceRequest == 0
FetchRequest == 1
OffsetRequest == 2
MetadataRequest == 3
OffsetCommitRequest == 8
OffsetFetchRequest == 9
ConsumerMetadataRequest == 10

SupportedKinds ==
  {ProduceRequest, FetchRequest, OffsetRequest, MetadataRequest,
   OffsetCommitRequest, OffsetFetchRequest, ConsumerMetadataRequest}

(* ---- bounds of the model ---- *)
MaxReqs == 2
MaxCalls == 3
MaxTopics == 2
MaxParts == 2

Conns == {"c1", "c2"}
Callers == {"t1", "t2"}
Before(c, d) == c = d \/ c = "c1"
NoConn == "-"
NoCaller == "-"

(* A kind tag that is none of the recognised ones. *)
OtherKinds == {4}

(* Handler values a test registers: two functions and the nil func value;  *)
(* "default" is srv.defaultRequestHandler.                                 *)
DefaultHandler == "default"
NilHandler == "nilfunc"
UserHandlers == {"h1", "h2"}
HandleKinds == {AnyRequest, OffsetRequest}
(* The Handle calls of the tests. *)
HandleArgs ==
  {[kind |-> k, h |-> h] : k \in HandleKinds, h \in UserHandlers}
    \cup {[kind |-> OffsetRequest, h |-> NilHandler]}

NilVal == [type |-> "nil"]

ErrUnknownTopicOrPartition == 3

SeqsUpTo(S, n) == UNION {[1..m -> S] : m \in 0..n}

(* ---- wire encodings read off a connection (proto.ReadReq) ---- *)
TopicNames == {"a", "b"}
PartIDs == {0, 1}
WireTopics(np) == {<<nm, ps>> : nm \in TopicNames, ps \in SeqsUpTo(PartIDs, np)}

CorrIDs == {0, 1}

(* The topic lists of a request: each topic named once. *)
TopicLists(nt, np) ==
  {ts \in SeqsUpTo(WireTopics(np), nt) :
      \A i, j \in 1..Len(ts) : i # j => ts[i][1] # ts[j][1]}

TopicFrames(k, enc, nt, np) ==
  {[kind |-> k, body |-> [enc |-> enc, corr |-> cid, topics |-> ts]] :
      cid \in CorrIDs, ts \in TopicLists(nt, np)}

Garbage == [enc |-> "garbage", corr |-> 0, topics |-> <<>>]

(* Every Fetch and Produce request up to the bounds, and the Metadata *)
(* requests.                                                         *)
AllFrames ==
  TopicFrames(FetchRequest, "FetchReq", MaxTopics, MaxParts)
    \cup TopicFrames(ProduceRequest, "ProduceReq", MaxTopics, MaxParts)
    \cup TopicFrames(MetadataRequest, "MetadataReq", 0, 0)

(* The frames peers send in the concurrent specification. *)
WireFrames ==
  { [kind |-> FetchRequest,
     body |-> [enc |-> "FetchReq", corr |-> 1,
               topics |-> << <<"a", <<1, 0>> >>, <<"b", <<>> >> >>]],
    [kind |-> OffsetRequest,
     body |-> [enc |-> "OffsetReq", corr |-> 0, topics |-> <<>>]],
    [kind |-> MetadataRequest,
     body |-> [enc |-> "MetadataReq", corr |-> 1, topics |-> <<>>]],
    [kind |-> OffsetRequest, body |-> Garbage] }
    \cup {[kind |-> k, body |-> Garbage] : k \in OtherKinds}

(* The frame peers send while the server is started and closed. *)
LifeFrames ==
  { [kind |-> MetadataRequest,
     body |-> [enc |-> "MetadataReq", corr |-> 1, topics |-> <<>>]] }

EncOf(kind) ==
  CASE kind = FetchRequest -> "FetchReq"
    [] kind = ProduceRequest -> "ProduceReq"
    [] kind = OffsetRequest -> "OffsetReq"
    [] kind = MetadataRequest -> "MetadataReq"
    [] kind = ConsumerMetadataRequest -> "ConsumerMetadataReq"
    [] kind = OffsetCommitRequest -> "OffsetCommitReq"
    [] kind = OffsetFetchRequest -> "OffsetFetchReq"
    [] OTHER -> "none"

(* proto.Read<Kind>Req: the typed request of a body, or an error. *)
ReadTypedReq(kind, b) ==
  IF b.enc # EncOf(kind)
    THEN [err |-> TRUE, req |-> NilVal]
    ELSE [err |-> FALSE,
          req |-> [type |-> b.enc,
                   CorrelationID |-> b.corr,
                   Topics |-> [ti \in 1..Len(b.topics) |->
                      [Name |-> b.topics[ti][1],
                       Partitions |-> [pi \in 1..Len(b.topics[ti][2]) |->
                          [ID |-> b.topics[ti][2][pi]]]]]]]

(* Faulty variant: a kind outside the switch is a decoding error. *)
DecodeRequestStrict(kind, b) ==
  IF kind \in SupportedKinds
    THEN ReadTypedReq(kind, b)
    ELSE [err |-> TRUE, req |-> NilVal]

(* The switch of handleClient, server.go:132-153. *)
DecodeRequest(kind, b) ==
  IF kind \in SupportedKinds
    THEN ReadTypedReq(kind, b)
    ELSE [err |-> FALSE, req |-> NilVal]


(* ---- state ---- *)
VARIABLES
  handlers,   \* srv.handlers: kind -> handler value
  ln,         \* srv.ln: the listener, or nil
  mu,         \* srv.mu: [w: writer holding it, r: readers holding it]
  Processed,  \* srv.Processed
  cpc, carg,  \* test goroutines calling Handle / Start / Close
  cres,       \* how each caller's last call ended
  calls,      \* number of calls made so far
  apc, acur,  \* the accept loop of Start and the connection it just accepted
  dpc,        \* handleClient(c): position in the loop
  cur,        \* kind, b of the frame read
  fn,         \* fn, ok of the lookup
  request,    \* the decoded request
  response,   \* the handler's return value
  nread,      \* frames read on the connection
  inv,        \* log: handler invocations of the connection
  out,        \* log: writes to the connection
  returned,   \* log: the registrations whose Handle call has returned
  stable,     \* log: the returned registration a request was read under
  binds,      \* log: successful net.Listen calls
  loops,      \* log: accept loops launched
  fatal,      \* the panic that ended the process, or "none"
  peer        \* what the peers do: frames they send, who connects, how often

vars ==
  <<handlers, ln, mu, Processed, cpc, carg, cres, calls, apc, acur, dpc, cur,
    fn, request, response, nread, inv, out, returned, stable, binds, loops,
    fatal, peer>>

srvVars == <<handlers, ln, mu, Processed>>
callerVars == <<cpc, carg, cres, calls>>
acceptVars == <<apc, acur>>
connVars == <<dpc, cur, fn, request, response, nread, inv, out>>
logVars == <<returned, stable, binds, loops>>

NilListener == [state |-> "nil", addr |-> <<>>]
(* ln.Addr().String() of a tcp4 listener, as its characters. *)
ListenAddrs == {<<"0", ".", "0", ".", "0", ".", "0", ":", "9", "0">>}
NoFrame == [kind |-> AnyRequest, body |-> Garbage]
NoFn == [ok |-> FALSE, h |-> NilHandler]
NoArg == [kind |-> AnyRequest, h |-> NilHandler]

(* Faulty variant: the constructor forgets the fallback entry. *)
NewServerNoFallback == [k \in {} |-> DefaultHandler]

(* NewServer, server.go:49-55 *)
NewServer == (AnyRequest :> DefaultHandler)

InitWith(p) ==
  /\ handlers = NewServer
  /\ ln = NilListener
  /\ mu = [w |-> NoCaller, r |-> {}]
  /\ Processed = 0
  /\ cpc = [t \in Callers |-> "idle"]
  /\ carg = [t \in Callers |-> NoArg]
  /\ cres = [t \in Callers |-> "none"]
  /\ calls = 0
  /\ apc = "none"
  /\ acur = NoConn
  /\ dpc = [c \in Conns |-> "new"]
  /\ cur = [c \in Conns |-> NoFrame]
  /\ fn = [c \in Conns |-> NoFn]
  /\ request = [c \in Conns |-> NilVal]
  /\ response = [c \in Conns |-> NilVal]
  /\ nread = [c \in Conns |-> 0]
  /\ inv = [c \in Conns |-> <<>>]
  /\ out = [c \in Conns |-> <<>>]
  /\ returned = NewServer
  /\ stable = [c \in Conns |-> NoFn]
  /\ binds = 0
  /\ loops = 0
  /\ fatal = "none"
  /\ peer = p

(* The peers of a specification: the frames they send, who connects, and *)
(* how many frames they send in all.                                     *)
PeerFrames ==
  IF peer = "wire" THEN WireFrames
  ELSE IF peer = "life" THEN LifeFrames ELSE AllFrames
PeerConns == IF peer \in {"wire", "life"} THEN Conns ELSE {"c1"}
PeerReqs == IF peer \in {"wire", "life"} THEN MaxReqs ELSE 1
(* c.Write(b) succeeds or fails; the failures are those of the peers of *)
(* the listener's life.                                                 *)
WriteResults == IF peer = "life" THEN BOOLEAN ELSE {TRUE}

Init == InitWith("wire")

Running == fatal = "none"

(* ---- sync.RWMutex ---- *)
(* A goroutine that has called Lock and waits for it. *)
PendingWriters ==
  {t \in Callers : cpc[t] \in {"H_lock", "S_lock", "C_lock"}}

CanLock == mu.w = NoCaller /\ mu.r = {}

(* Faulty variant: the registry is read without waiting for the lock. *)
CanRLockUnguarded == TRUE

(* RLock blocks while a writer holds the lock or waits for it. *)
CanRLock == mu.w = NoCaller /\ PendingWriters = {}

Lock(t) == [mu EXCEPT !.w = t]
Unlock == [mu EXCEPT !.w = NoCaller]
RLock(c) == [mu EXCEPT !.r = @ \cup {c}]
RUnlock(c) == [mu EXCEPT !.r = @ \ {c}]

(* A panic leaves the call: the test recovers it, or the process ends. *)
CallerPanic(t) ==
  /\ cpc' = [cpc EXCEPT ![t] = "idle"]
  /\ cres' = [cres EXCEPT ![t] = "none"]
  /\ \E recovered \in BOOLEAN :
       fatal' = IF recovered THEN fatal ELSE cres[t]

(* Test goroutines are interchangeable: t2 calls only while t1 is in a call. *)
MayCall(t) ==
  /\ cpc[t] = "idle" /\ calls < MaxCalls
  /\ t = "t1" \/ cpc["t1"] # "idle"

(* A call that finds the lock taken waits at its Lock(). *)
Blocked(t, at) ==
  /\ ~CanLock
  /\ cpc' = [cpc EXCEPT ![t] = at]
  /\ cres' = [cres EXCEPT ![t] = "none"]
  /\ UNCHANGED <<srvVars, acceptVars, connVars, returned, binds, loops, fatal,
                 peer>>

(* ---- Handle, server.go:60-64 ---- *)
SetHandler(hs, kind, h) ==
  [k \in DOMAIN hs \cup {kind} |-> IF k = kind THEN h ELSE hs[k]]

(* srv.mu.Lock(); srv.handlers[reqKind] = handler *)
HandleBody(t, a) ==
  /\ CanLock
  /\ mu' = Lock(t)
  /\ handlers' = SetHandler(handlers, a.kind, a.h)
  /\ cpc' = [cpc EXCEPT ![t] = "H_unlock"]
  /\ cres' = [cres EXCEPT ![t] = "none"]
  /\ UNCHANGED <<ln, Processed, acceptVars, connVars, returned, binds, loops,
                 fatal, peer>>

(* Log: a Handle call for the kind of a request being served ends the *)
(* stable registration that request was read under.                  *)
Unsettle(kind) ==
  [c \in Conns |-> IF cur[c].kind = kind THEN NoFn ELSE stable[c]]

CallHandle(t, kind, h) ==
  /\ Running /\ MayCall(t)
  /\ carg' = [carg EXCEPT ![t] = [kind |-> kind, h |-> h]]
  /\ calls' = calls + 1
  /\ stable' = Unsettle(kind)
  /\ HandleBody(t, [kind |-> kind, h |-> h]) \/ Blocked(t, "H_lock")

HandleLock(t) ==
  /\ Running /\ cpc[t] = "H_lock"
  /\ HandleBody(t, carg[t])
  /\ UNCHANGED <<carg, calls, stable>>

(* Log: the registrations whose call has returned. *)
Registered(hs, a) ==
  [k \in DOMAIN hs \cup {a.kind} |-> IF k = a.kind THEN a.h ELSE hs[k]]

(* srv.mu.Unlock(); return *)
HandleUnlock(t) ==
  /\ Running /\ cpc[t] = "H_unlock"
  /\ mu' = Unlock
  /\ cpc' = [cpc EXCEPT ![t] = "idle"]
  /\ returned' = Registered(returned, carg[t])
  /\ carg' = [carg EXCEPT ![t] = NoArg]
  /\ UNCHANGED <<handlers, ln, Processed, cres, calls, acceptVars,
                 connVars, stable, binds, loops, fatal, peer>>

(* ---- Start, server.go:85-107 ---- *)
(* Faulty variant: Start does not look at srv.ln. *)
StartUnchecked == FALSE

AlreadyStarted == ln # NilListener

(* if srv.ln != nil { panic("server already started") } *)
StartTwice(t) ==
  /\ AlreadyStarted
  /\ mu' = Lock(t)
  /\ cpc' = [cpc EXCEPT ![t] = "S_panic"]
  /\ cres' = [cres EXCEPT ![t] = "server already started"]
  /\ UNCHANGED <<ln, binds, loops, apc, fatal>>

(* net.Listen fails: panic("cannot start server") *)
StartListenFails(t) ==
  /\ ~AlreadyStarted
  /\ mu' = Lock(t)
  /\ cpc' = [cpc EXCEPT ![t] = "S_panic"]
  /\ cres' = [cres EXCEPT ![t] = "cannot start server"]
  /\ UNCHANGED <<ln, binds, loops, apc, fatal>>

(* net.Listen succeeds; srv.ln = ln; go func() { accept loop }() *)
StartListen(t) ==
  /\ ~AlreadyStarted
  /\ \E a \in ListenAddrs : ln' = [state |-> "open", addr |-> a]
  /\ binds' = binds + 1
  /\ loops' = loops + 1
  /\ apc' = "accept"
  /\ mu' = Lock(t)
  /\ cpc' = [cpc EXCEPT ![t] = "S_unlock"]
  /\ cres' = [cres EXCEPT ![t] = "none"]
  /\ UNCHANGED fatal

(* srv.mu.Lock(); defer srv.mu.Unlock(); lines 89-106 *)
StartBody(t) ==
  /\ CanLock
  /\ StartTwice(t) \/ StartListenFails(t) \/ StartListen(t)
  /\ UNCHANGED <<handlers, Processed, acur, connVars, returned, peer>>

CallStart(t) ==
  /\ Running /\ MayCall(t)
  /\ calls' = calls + 1
  /\ StartBody(t) \/ Blocked(t, "S_lock")
  /\ UNCHANGED <<carg, stable>>

StartLock(t) ==
  /\ Running /\ cpc[t] = "S_lock"
  /\ StartBody(t)
  /\ UNCHANGED <<carg, calls, stable>>

(* return: the deferred Unlock *)
StartUnlock(t) ==
  /\ Running /\ cpc[t] = "S_unlock"
  /\ mu' = Unlock
  /\ cpc' = [cpc EXCEPT ![t] = "idle"]
  /\ UNCHANGED <<handlers, ln, Processed, carg, cres, calls, acceptVars,
                 connVars, logVars, fatal, peer>>

(* The panic of Start unwinds: the deferred Unlock runs. *)
StartPanics(t) ==
  /\ Running /\ cpc[t] = "S_panic"
  /\ mu' = Unlock
  /\ CallerPanic(t)
  /\ UNCHANGED <<handlers, ln, Processed, carg, calls, acceptVars, connVars,
                 logVars, peer>>

(* ---- Close, server.go:109-113 ---- *)
CloseListener(l) == [l EXCEPT !.state = "closed"]

(* srv.ln.Close() on a nil listener: a nil dereference, and no deferred *)
(* Unlock to run.                                                       *)
CloseNil(t) ==
  /\ ln = NilListener
  /\ mu' = Lock(t)
  /\ cpc' = [cpc EXCEPT ![t] = "C_panic"]
  /\ cres' = [cres EXCEPT ![t] = "nil pointer dereference"]
  /\ UNCHANGED <<handlers, ln, Processed, acceptVars, connVars, returned,
                 binds, loops, fatal, peer>>

(* Faulty variant: Close closes the accepted connections too. *)
CloseLnAndConns(t) ==
  /\ ln # NilListener
  /\ mu' = Lock(t)
  /\ ln' = CloseListener(ln)
  /\ dpc' = [c \in Conns |-> IF dpc[c] = "new" THEN "new" ELSE "closed"]
  /\ cpc' = [cpc EXCEPT ![t] = "C_unlock"]
  /\ cres' = [cres EXCEPT ![t] = "none"]
  /\ UNCHANGED <<handlers, Processed, acceptVars, cur, fn, request, response,
                 nread, inv, out, returned, binds, loops, fatal, peer>>

CloseLn(t) ==
  /\ ln # NilListener
  /\ mu' = Lock(t)
  /\ ln' = CloseListener(ln)
  /\ cpc' = [cpc EXCEPT ![t] = "C_unlock"]
  /\ cres' = [cres EXCEPT ![t] = "none"]
  /\ UNCHANGED <<handlers, Processed, acceptVars, connVars, returned, binds,
                 loops, fatal, peer>>

(* srv.mu.Lock(); srv.ln.Close() *)
CloseBody(t) ==
  /\ CanLock
  /\ CloseNil(t) \/ CloseLn(t)

CallClose(t) ==
  /\ Running /\ MayCall(t)
  /\ calls' = calls + 1
  /\ CloseBody(t) \/ Blocked(t, "C_lock")
  /\ UNCHANGED <<carg, stable>>

CloseLock(t) ==
  /\ Running /\ cpc[t] = "C_lock"
  /\ CloseBody(t)
  /\ UNCHANGED <<carg, calls, stable>>

(* srv.mu.Unlock(); return *)
CloseUnlock(t) ==
  /\ Running /\ cpc[t] = "C_unlock"
  /\ mu' = Unlock
  /\ cpc' = [cpc EXCEPT ![t] = "idle"]
  /\ UNCHANGED <<handlers, ln, Processed, carg, cres, calls, acceptVars,
                 connVars, logVars, fatal, peer>>

(* The panic of Close unwinds: nothing unlocks. *)
ClosePanics(t) ==
  /\ Running /\ cpc[t] = "C_panic"
  /\ CallerPanic(t)
  /\ UNCHANGED <<srvVars, carg, calls, acceptVars, connVars, logVars, peer>>

(* ---- the accept loop, server.go:98-106 ---- *)
(* Peers are interchangeable: they connect in a fixed order. *)
Waiting == {c \in PeerConns : dpc[c] = "new"}
NextPeer == IF Waiting = {} THEN NoConn
            ELSE CHOOSE c \in Waiting : \A d \in Waiting : Before(c, d)

Accept(c) ==
  /\ Running /\ apc = "accept" /\ ln.state = "open"
  /\ c = NextPeer /\ acur = NoConn
  /\ acur' = c
  /\ apc' = "spawn"
  /\ dpc' = [dpc EXCEPT ![c] = "accepted"]
  /\ UNCHANGED <<srvVars, callerVars, cur, fn, request, response, nread, inv,
                 out, logVars, fatal, peer>>

(* Faulty variant: the accept error is raised instead of ending the loop. *)
AcceptErrRaised ==
  /\ Running /\ apc = "accept" /\ ln.state = "closed"
  /\ apc' = "exited"
  /\ fatal' = "accept failed"
  /\ UNCHANGED <<srvVars, callerVars, acur, connVars, logVars, peer>>

(* ln.Accept() fails on the closed listener: return *)
AcceptErr ==
  /\ Running /\ apc = "accept" /\ ln.state = "closed"
  /\ apc' = "exited"
  /\ UNCHANGED <<srvVars, callerVars, acur, connVars, logVars, fatal, peer>>

(* go srv.handleClient(client) *)
Spawn ==
  /\ Running /\ apc = "spawn"
  /\ dpc' = [dpc EXCEPT ![acur] = "read"]
  /\ acur' = NoConn
  /\ apc' = "accept"
  /\ UNCHANGED <<srvVars, callerVars, cur, fn, request, response, nread, inv,
                 out, logVars, fatal, peer>>


(* ---- net.SplitHostPort and strconv.Atoi, as HostPort uses them ---- *)
Digits == <<"0", "1", "2", "3", "4", "5", "6", "7", "8", "9">>
IsDigit(ch) == \E d \in 1..10 : Digits[d] = ch
DigitVal(ch) == (CHOOSE d \in 1..10 : Digits[d] = ch) - 1

Colons(a) == {i \in 1..Len(a) : a[i] = ":"}
LastColon(a) == CHOOSE i \in Colons(a) : \A j \in Colons(a) : j <= i

RECURSIVE Atoi(_)
Atoi(ds) ==
  IF ds = <<>> THEN 0
  ELSE 10 * Atoi(SubSeq(ds, 1, Len(ds) - 1)) + DigitVal(ds[Len(ds)])

(* Faulty variant: the host is replaced whether or not it is empty. *)
HostPortLocal(a) ==
  IF Colons(a) = {}
    THEN [panic |-> "cannot split server address", host |-> <<>>, port |-> 0]
  ELSE LET sport == SubSeq(a, LastColon(a) + 1, Len(a))
       IN IF sport = <<>> \/ \E i \in 1..Len(sport) : ~IsDigit(sport[i])
            THEN [panic |-> "port is not a number", host |-> <<>>, port |-> 0]
            ELSE [panic |-> "none",
                  host |-> <<"l","o","c","a","l","h","o","s","t">>,
                  port |-> Atoi(sport)]

(* server.go:216-226, the same statements as HostPort, server.go:70-83 *)
HostPortOf(a) ==
  IF Colons(a) = {}
    THEN [panic |-> "cannot split server address", host |-> <<>>, port |-> 0]
  ELSE LET h == SubSeq(a, 1, LastColon(a) - 1)
           sport == SubSeq(a, LastColon(a) + 1, Len(a))
       IN IF sport = <<>> \/ \E i \in 1..Len(sport) : ~IsDigit(sport[i])
            THEN [panic |-> "port is not a number", host |-> h, port |-> 0]
            ELSE [panic |-> "none",
                  host |-> IF h = <<>>
                             THEN <<"l","o","c","a","l","h","o","s","t">>
                             ELSE h,
                  port |-> Atoi(sport)]

(* srv.HostPort(), server.go:70-83 *)
HostPort(l) ==
  IF l = NilListener
    THEN [panic |-> "nil pointer dereference", host |-> <<>>, port |-> 0]
  ELSE IF ~\E i \in 1..Len(l.addr) : l.addr[i] = ":"
    THEN [panic |-> "cannot split server address", host |-> <<>>, port |-> 0]
  ELSE LET colon == CHOOSE i \in 1..Len(l.addr) :
                      /\ l.addr[i] = ":"
                      /\ \A j \in (i + 1)..Len(l.addr) : l.addr[j] # ":"
           host == [i \in 1..(colon - 1) |-> l.addr[i]]
           sport == [i \in 1..(Len(l.addr) - colon) |-> l.addr[colon + i]]
       IN IF sport = <<>> \/ \E i \in 1..Len(sport) : ~IsDigit(sport[i])
            THEN [panic |-> "port is not a number", host |-> host, port |-> 0]
            ELSE [panic |-> "none",
                  host |-> IF host = <<>>
                             THEN <<"l","o","c","a","l","h","o","s","t">>
                             ELSE host,
                  port |-> Atoi(sport)]

(* ---- defaultRequestHandler, server.go:166-253 ---- *)
(* Faulty variant: the Offset case falls out of the unimplemented ones. *)
NotImplementedSaveOffset ==
  {"ConsumerMetadataReq", "OffsetCommitReq", "OffsetFetchReq"}

NotImplemented ==
  {"OffsetReq", "ConsumerMetadataReq", "OffsetCommitReq", "OffsetFetchReq"}

(* Faulty variant: the tip offset of an empty log, 0. *)
FetchRespPartitionAtZero(part) ==
  [ID |-> part.ID, Err |-> ErrUnknownTopicOrPartition, TipOffset |-> 0,
   Messages |-> <<>>]

FetchRespPartition(part) ==
  [ID |-> part.ID, Err |-> ErrUnknownTopicOrPartition, TipOffset |-> -1,
   Messages |-> <<>>]

(* Faulty variant: the correlation id is left at its zero value. *)
FetchRespUncorrelated(req) ==
  [type |-> "FetchResp",
   CorrelationID |-> 0,
   Topics |-> [ti \in 1..Len(req.Topics) |->
      [Name |-> req.Topics[ti].Name,
       Partitions |-> [pi \in 1..Len(req.Topics[ti].Partitions) |->
          FetchRespPartition(req.Topics[ti].Partitions[pi])]]]]

FetchRespOf(req) ==
  [type |-> "FetchResp",
   CorrelationID |-> req.CorrelationID,
   Topics |-> [ti \in 1..Len(req.Topics) |->
      [Name |-> req.Topics[ti].Name,
       Partitions |-> [pi \in 1..Len(req.Topics[ti].Partitions) |->
          FetchRespPartition(req.Topics[ti].Partitions[pi])]]]]

(* Faulty variant: the produce is acknowledged at offset 0. *)
ProduceRespPartitionAtZero(part) ==
  [ID |-> part.ID, Err |-> ErrUnknownTopicOrPartition, Offset |-> 0]

ProduceRespPartition(part) ==
  [ID |-> part.ID, Err |-> ErrUnknownTopicOrPartition, Offset |-> -1]

ProduceRespOf(req) ==
  [type |-> "ProduceResp",
   CorrelationID |-> req.CorrelationID,
   Topics |-> [ti \in 1..Len(req.Topics) |->
      [Name |-> req.Topics[ti].Name,
       Partitions |-> [pi \in 1..Len(req.Topics[ti].Partitions) |->
          ProduceRespPartition(req.Topics[ti].Partitions[pi])]]]]

MetadataRespOf(req, hp) ==
  [type |-> "MetadataResp",
   CorrelationID |-> req.CorrelationID,
   Brokers |-> <<[NodeID |-> 1, Host |-> hp.host, Port |-> hp.port]>>,
   Topics |-> <<>>]

(* The type switch: the response, or the panic it ends in. *)
DefaultResponse(req, l) ==
  CASE req.type = "FetchReq" -> [panic |-> "none", resp |-> FetchRespOf(req)]
    [] req.type = "ProduceReq" -> [panic |-> "none", resp |-> ProduceRespOf(req)]
    [] req.type \in NotImplemented -> [panic |-> "not implemented", resp |-> NilVal]
    [] req.type = "MetadataReq" ->
         IF l = NilListener
           THEN [panic |-> "nil pointer dereference", resp |-> NilVal]
           ELSE LET hp == HostPortOf(l.addr)
                IN IF hp.panic # "none"
                     THEN [panic |-> hp.panic, resp |-> NilVal]
                     ELSE [panic |-> "none", resp |-> MetadataRespOf(req, hp)]
    [] OTHER -> [panic |-> "unknown message type", resp |-> NilVal]

(* What a test's handler may return: nothing, or a response that does or *)
(* does not serialize.                                                    *)
HandlerReturns(h) ==
  {NilVal} \cup {[type |-> "Custom", by |-> h, ok |-> ok] : ok \in BOOLEAN}

(* response.Bytes() *)
Bytes(resp) ==
  IF resp.type = "Custom" /\ ~resp.ok
    THEN [err |-> TRUE, b |-> NilVal]
    ELSE [err |-> FALSE, b |-> resp]

(* ---- handleClient, server.go:115-164 ---- *)
(* fn, ok := m[kind] *)
MapGet(hs, kind) ==
  IF kind \in DOMAIN hs THEN [ok |-> TRUE, h |-> hs[kind]] ELSE NoFn

(* Faulty variant: the fallback entry is looked up first. *)
ResolveAnyFirst(hs, kind) ==
  IF MapGet(hs, AnyRequest).ok THEN MapGet(hs, AnyRequest) ELSE MapGet(hs, kind)

(* The handler the lookup of lines 122-125 yields on a registry hs. *)
Resolve(hs, kind) ==
  IF MapGet(hs, kind).ok THEN MapGet(hs, kind) ELSE MapGet(hs, AnyRequest)

RECURSIVE SumOver(_, _)
SumOver(f, S) ==
  IF S = {} THEN 0
  ELSE LET x == CHOOSE y \in S : TRUE IN f[x] + SumOver(f, S \ {x})

TotalRead == SumOver(nread, Conns)

(* Log: the handler a returned Handle registered for the kind, no Handle *)
(* call for that kind being under way.                                  *)
HandleCalls(kind) ==
  {t \in Callers : cpc[t] \in {"H_lock", "H_unlock"} /\ carg[t].kind = kind}

Settled(kind) ==
  IF kind \in DOMAIN returned /\ HandleCalls(kind) = {}
    THEN [ok |-> TRUE, h |-> returned[kind]]
    ELSE NoFn

(* Faulty variant: the next frame is read before the response is written. *)
ReadAhead(c, f) ==
  /\ Running /\ dpc[c] \in {"read", "write"} /\ TotalRead < PeerReqs
  /\ cur' = [cur EXCEPT ![c] = f]
  /\ nread' = [nread EXCEPT ![c] = @ + 1]
  /\ dpc' = [dpc EXCEPT ![c] = "rlock"]
  /\ stable' = [stable EXCEPT ![c] = Settled(f.kind)]
  /\ UNCHANGED <<srvVars, callerVars, acceptVars, fn, request, response, inv,
                 out, returned, binds, loops, fatal, peer>>

ReadFrame(c, f) ==
  /\ Running /\ dpc[c] = "read" /\ TotalRead < PeerReqs
  /\ cur' = [cur EXCEPT ![c] = f]
  /\ nread' = [nread EXCEPT ![c] = @ + 1]
  /\ dpc' = [dpc EXCEPT ![c] = "rlock"]
  /\ stable' = [stable EXCEPT ![c] = Settled(f.kind)]
  /\ UNCHANGED <<srvVars, callerVars, acceptVars, fn, request, response, inv,
                 out, returned, binds, loops, fatal, peer>>

(* proto.ReadReq fails: return *)
ReadErr(c) ==
  /\ Running /\ dpc[c] = "read"
  /\ dpc' = [dpc EXCEPT ![c] = "closed"]
  /\ UNCHANGED <<srvVars, callerVars, acceptVars, cur, fn, request, response,
                 nread, inv, out, logVars, fatal, peer>>

(* srv.mu.RLock(); fn, ok := srv.handlers[kind]; if !ok { fn, ok = ...Any } *)
ResolveHandler(c) ==
  /\ Running /\ dpc[c] = "rlock" /\ CanRLock
  /\ mu' = RLock(c)
  /\ fn' = [fn EXCEPT ![c] = Resolve(handlers, cur[c].kind)]
  /\ dpc' = [dpc EXCEPT ![c] = "runlock"]
  /\ UNCHANGED <<handlers, ln, Processed, callerVars, acceptVars, cur,
                 request, response, nread, inv, out, logVars, fatal, peer>>

(* Faulty variant: the read lock is kept past the lookup. *)
ResolveKeepsLock(c) ==
  /\ Running /\ dpc[c] = "runlock"
  /\ dpc' = [dpc EXCEPT ![c] = "decode"]
  /\ UNCHANGED <<srvVars, callerVars, acceptVars, cur, fn, request, response,
                 nread, inv, out, logVars, fatal, peer>>

(* srv.mu.RUnlock() *)
ResolveRUnlock(c) ==
  /\ Running /\ dpc[c] = "runlock"
  /\ mu' = RUnlock(c)
  /\ dpc' = [dpc EXCEPT ![c] = "decode"]
  /\ UNCHANGED <<handlers, ln, Processed, callerVars, acceptVars, cur, fn,
                 request, response, nread, inv, out, logVars, fatal, peer>>

(* Faulty variant: the handler is looked up once the request is decoded. *)
DecodeThenResolve(c) ==
  /\ Running /\ dpc[c] = "decode"
  /\ LET d == DecodeRequest(cur[c].kind, cur[c].body)
     IN IF d.err
          THEN /\ fatal' = "could not read message"
               /\ UNCHANGED <<dpc, request, fn>>
        ELSE IF ~Resolve(handlers, cur[c].kind).ok
          THEN /\ fatal' = "no handler"
               /\ UNCHANGED <<dpc, request, fn>>
        ELSE /\ request' = [request EXCEPT ![c] = d.req]
             /\ fn' = [fn EXCEPT ![c] = Resolve(handlers, cur[c].kind)]
             /\ dpc' = [dpc EXCEPT ![c] = "invoke"]
             /\ UNCHANGED fatal
  /\ UNCHANGED <<srvVars, callerVars, acceptVars, cur, response, nread,
                 inv, out, logVars, peer>>

(* lines 128-153: the !ok panic, the decoding switch, the err panic *)
Decode(c) ==
  /\ Running /\ dpc[c] = "decode"
  /\ LET d == DecodeRequest(cur[c].kind, cur[c].body)
     IN IF ~fn[c].ok
          THEN /\ fatal' = "no handler"
               /\ UNCHANGED <<dpc, request>>
        ELSE IF d.err
          THEN /\ fatal' = "could not read message"
               /\ UNCHANGED <<dpc, request>>
        ELSE /\ request' = [request EXCEPT ![c] = d.req]
             /\ dpc' = [dpc EXCEPT ![c] = "invoke"]
             /\ UNCHANGED fatal
  /\ UNCHANGED <<srvVars, callerVars, acceptVars, cur, fn, response, nread,
                 inv, out, logVars, peer>>

Invocation(c) == [idx |-> nread[c], h |-> fn[c].h, req |-> request[c]]

(* Faulty variant: the handler is looked up again when it is called. *)
InvokeUserLate(c, r) ==
  /\ Running /\ dpc[c] = "invoke" /\ fn[c].h \in UserHandlers
  /\ Resolve(handlers, cur[c].kind).h \in UserHandlers
  /\ r \in HandlerReturns(Resolve(handlers, cur[c].kind).h)
  /\ inv' = [inv EXCEPT ![c] =
       Append(@, [Invocation(c) EXCEPT !.h = Resolve(handlers, cur[c].kind).h])]
  /\ response' = [response EXCEPT ![c] = r]
  /\ dpc' = [dpc EXCEPT ![c] = "write"]
  /\ UNCHANGED <<srvVars, callerVars, acceptVars, cur, fn, request, nread,
                 out, logVars, fatal, peer>>

(* response := fn(request), fn a handler of the test *)
InvokeUser(c, r) ==
  /\ Running /\ dpc[c] = "invoke" /\ fn[c].h \in UserHandlers
  /\ r \in HandlerReturns(fn[c].h)
  /\ inv' = [inv EXCEPT ![c] = Append(@, Invocation(c))]
  /\ response' = [response EXCEPT ![c] = r]
  /\ dpc' = [dpc EXCEPT ![c] = "write"]
  /\ UNCHANGED <<srvVars, callerVars, acceptVars, cur, fn, request, nread,
                 out, logVars, fatal, peer>>

(* fn is the nil func value: the call panics *)
InvokeNil(c) ==
  /\ Running /\ dpc[c] = "invoke" /\ fn[c].h = NilHandler
  /\ fatal' = "nil pointer dereference"
  /\ UNCHANGED <<srvVars, callerVars, acceptVars, connVars, logVars, peer>>

(* fn is srv.defaultRequestHandler: srv.mu.RLock(); defer srv.mu.RUnlock() *)
InvokeDefault(c) ==
  /\ Running /\ dpc[c] = "invoke" /\ fn[c].h = DefaultHandler /\ CanRLock
  /\ inv' = [inv EXCEPT ![c] = Append(@, Invocation(c))]
  /\ mu' = RLock(c)
  /\ dpc' = [dpc EXCEPT ![c] = "d_body"]
  /\ UNCHANGED <<handlers, ln, Processed, callerVars, acceptVars, cur, fn,
                 request, response, nread, out, logVars, fatal, peer>>

(* The type switch, then the deferred RUnlock, on return and on panic. *)
DefaultBody(c) ==
  /\ Running /\ dpc[c] = "d_body"
  /\ LET r == DefaultResponse(request[c], ln)
     IN IF r.panic # "none"
          THEN /\ fatal' = r.panic
               /\ UNCHANGED <<dpc, response>>
          ELSE /\ response' = [response EXCEPT ![c] = r.resp]
               /\ dpc' = [dpc EXCEPT ![c] = "write"]
               /\ UNCHANGED fatal
  /\ mu' = RUnlock(c)
  /\ UNCHANGED <<handlers, ln, Processed, callerVars, acceptVars, cur, fn,
                 request, nread, inv, out, logVars, peer>>

Written(c, b, ok) == [idx |-> nread[c], b |-> b, ok |-> ok]

(* Faulty variant: the response is written again (a retry). *)
WriteTwice(c) ==
  /\ Running /\ dpc[c] = "write"
  /\ IF response[c] = NilVal
       THEN /\ dpc' = [dpc EXCEPT ![c] = "read"]
            /\ UNCHANGED <<out, fatal>>
     ELSE IF Bytes(response[c]).err
       THEN /\ fatal' = "cannot serialize"
            /\ UNCHANGED <<dpc, out>>
     ELSE /\ \E ok \in WriteResults :
               out' = [out EXCEPT ![c] =
                 Append(Append(@, Written(c, Bytes(response[c]).b, ok)),
                        Written(c, Bytes(response[c]).b, ok))]
          /\ dpc' = [dpc EXCEPT ![c] = "read"]
          /\ UNCHANGED fatal
  /\ UNCHANGED <<srvVars, callerVars, acceptVars, cur, fn, request, response,
                 nread, inv, logVars, peer>>

(* Faulty variant: a failed write ends the loop. *)
WriteOrReturn(c) ==
  /\ Running /\ dpc[c] = "write"
  /\ IF response[c] = NilVal
       THEN /\ dpc' = [dpc EXCEPT ![c] = "read"]
            /\ UNCHANGED <<out, fatal>>
     ELSE IF Bytes(response[c]).err
       THEN /\ fatal' = "cannot serialize"
            /\ UNCHANGED <<dpc, out>>
     ELSE /\ \E ok \in WriteResults :
               /\ out' = [out EXCEPT ![c] =
                    Append(@, Written(c, Bytes(response[c]).b, ok))]
               /\ dpc' = [dpc EXCEPT ![c] = IF ok THEN "read" ELSE "closed"]
          /\ UNCHANGED fatal
  /\ UNCHANGED <<srvVars, callerVars, acceptVars, cur, fn, request, response,
                 nread, inv, logVars, peer>>

(* Faulty variant: a written response is counted. *)
WriteCounted(c) ==
  /\ Running /\ dpc[c] = "write"
  /\ IF response[c] = NilVal
       THEN /\ dpc' = [dpc EXCEPT ![c] = "read"]
            /\ UNCHANGED <<out, fatal, Processed>>
     ELSE IF Bytes(response[c]).err
       THEN /\ fatal' = "cannot serialize"
            /\ UNCHANGED <<dpc, out, Processed>>
     ELSE /\ \E ok \in WriteResults :
               out' = [out EXCEPT ![c] =
                 Append(@, Written(c, Bytes(response[c]).b, ok))]
          /\ dpc' = [dpc EXCEPT ![c] = "read"]
          /\ Processed' = Processed + 1
          /\ UNCHANGED fatal
  /\ UNCHANGED <<handlers, ln, mu, callerVars, acceptVars, cur, fn, request,
                 response, nread, inv, logVars, peer>>

(* lines 156-162, then back to the head of the loop: the result of *)
(* c.Write is not looked at                                         *)
Write(c) ==
  /\ Running /\ dpc[c] = "write"
  /\ IF response[c] = NilVal
       THEN /\ dpc' = [dpc EXCEPT ![c] = "read"]
            /\ UNCHANGED <<out, fatal>>
     ELSE IF Bytes(response[c]).err
       THEN /\ fatal' = "cannot serialize"
            /\ UNCHANGED <<dpc, out>>
     ELSE /\ \E ok \in WriteResults :
               out' = [out EXCEPT ![c] =
                 Append(@, Written(c, Bytes(response[c]).b, ok))]
          /\ dpc' = [dpc EXCEPT ![c] = "read"]
          /\ UNCHANGED fatal
  /\ UNCHANGED <<srvVars, callerVars, acceptVars, cur, fn, request, response,
                 nread, inv, logVars, peer>>

(* ---- the specifications ---- *)
CallerStep(t) ==
  \/ \E a \in HandleArgs : CallHandle(t, a.kind, a.h)
  \/ HandleLock(t) \/ HandleUnlock(t)
  \/ CallStart(t) \/ StartLock(t) \/ StartUnlock(t) \/ StartPanics(t)
  \/ CallClose(t) \/ CloseLock(t) \/ CloseUnlock(t) \/ ClosePanics(t)

AcceptStep == (\E c \in Conns : Accept(c)) \/ AcceptErr \/ Spawn

ConnStep(c) ==
  \/ \E f \in PeerFrames : ReadFrame(c, f)
  \/ ReadErr(c)
  \/ ResolveHandler(c) \/ ResolveRUnlock(c)
  \/ Decode(c)
  \/ \E r \in HandlerReturns(fn[c].h) : InvokeUser(c, r)
  \/ InvokeNil(c) \/ InvokeDefault(c)
  \/ DefaultBody(c)
  \/ Write(c)

Next ==
  \/ \E t \in Callers : CallerStep(t)
  \/ AcceptStep
  \/ \E c \in Conns : ConnStep(c)

Spec == Init /\ [][Next]_vars

(* One test goroutine starts the server and registers nothing; one peer *)
(* sends any Fetch or Produce request up to the bounds.                  *)
InitDefault == InitWith("all")

NextDefault ==
  \/ (~AlreadyStarted /\ CallStart("t1")) \/ StartUnlock("t1")
  \/ StartPanics("t1")
  \/ Accept("c1") \/ Spawn
  \/ \E f \in PeerFrames : ReadFrame("c1", f)
  \/ ReadErr("c1")
  \/ ResolveHandler("c1") \/ ResolveRUnlock("c1")
  \/ Decode("c1")
  \/ InvokeDefault("c1") \/ DefaultBody("c1")
  \/ Write("c1")

SpecDefault == InitDefault /\ [][NextDefault]_vars

(* The life of the listener: Start and Close called by the tests, peers *)
(* that connect and send one Metadata request in all. The accept loop   *)
(* is a goroutine of its own, which the scheduler runs: a return or a   *)
(* go statement it has reached is executed.                             *)
InitLife == InitWith("life")

NextLife ==
  \/ \E t \in Callers :
       \/ CallStart(t) \/ StartLock(t) \/ StartUnlock(t) \/ StartPanics(t)
       \/ CallClose(t) \/ CloseLock(t) \/ CloseUnlock(t) \/ ClosePanics(t)
  \/ AcceptStep
  \/ \E c \in Conns :
       \/ \E f \in PeerFrames : ReadFrame(c, f)
       \/ ReadErr(c)
       \/ ResolveHandler(c) \/ ResolveRUnlock(c)
       \/ Decode(c)
       \/ InvokeDefault(c) \/ DefaultBody(c)
       \/ Write(c)

SpecLife ==
  InitLife /\ [][NextLife]_vars /\ WF_vars(AcceptErr) /\ WF_vars(Spawn)

(* ---- properties ---- *)
(* The invocations and the writes the logs hold for request i of c. *)
InvOf(c, i) == {j \in 1..Len(inv[c]) : inv[c][j].idx = i}
OutOf(c, i) == {j \in 1..Len(out[c]) : out[c][j].idx = i}

(* The request c read last has been served: the loop is back at its head. *)
Served(c) == nread[c] > 0 /\ dpc[c] \in {"read", "closed"}
(* c has resolved the handler of the request it is serving. *)
Resolved(c) == dpc[c] \in {"runlock", "decode", "invoke", "d_body", "write"}

(* C1: a request of kind k read while Handle(k, h) has returned and no     *)
(* other Handle(k, .) is made is served by h and by nothing else: h is     *)
(* invoked at most once, with the decoded request, and exactly once when   *)
(* the iteration is over; its return value is written once if it is not    *)
(* nil and nothing is written if it is nil; the default responder is not   *)
(* invoked for the request.                                                *)
C1_RegisteredHandlerServes ==
  \A c \in Conns :
    (nread[c] > 0 /\ stable[c].ok) =>
      LET i == nread[c]
          h == stable[c].h
      IN /\ Resolved(c) => fn[c] = [ok |-> TRUE, h |-> h]
         /\ Cardinality(InvOf(c, i)) <= 1
         /\ \A j \in InvOf(c, i) :
              /\ inv[c][j].h = h
              /\ inv[c][j].req.type = EncOf(cur[c].kind)
              /\ inv[c][j].req.CorrelationID = cur[c].body.corr
         /\ Cardinality(OutOf(c, i)) <= 1
         /\ \A j \in OutOf(c, i) :
              /\ InvOf(c, i) # {}
              /\ response[c] \in HandlerReturns(h) \ {NilVal}
              /\ out[c][j].b = response[c]
         /\ Served(c) =>
              /\ Cardinality(InvOf(c, i)) = 1
              /\ Cardinality(OutOf(c, i)) = IF response[c] = NilVal THEN 0 ELSE 1

C1_Witness ==
  \E c \in Conns :
    /\ stable[c].ok /\ Served(c)
    /\ cur[c].kind = OffsetRequest
    /\ handlers[AnyRequest] = DefaultHandler
    /\ \E j \in OutOf(c, nread[c]) : out[c][j].b.by = stable[c].h

(* C2: while a connection holds the read lock after its lookup, the handler *)
(* it has is the entry of the request's kind if the registry has one, and   *)
(* the AnyRequest entry only if it has none.                                *)
C2_ResolutionPrefersExactKind ==
  \A c \in Conns :
    dpc[c] = "runlock" =>
      /\ fn[c].ok
      /\ cur[c].kind \in DOMAIN handlers => fn[c].h = handlers[cur[c].kind]
      /\ cur[c].kind \notin DOMAIN handlers => fn[c].h = handlers[AnyRequest]

C2_Witness ==
  \E c \in Conns :
    /\ dpc[c] = "runlock"
    /\ cur[c].kind \in DOMAIN handlers
    /\ handlers[AnyRequest] \in UserHandlers
    /\ handlers[cur[c].kind] # handlers[AnyRequest]
    /\ fn[c].h = handlers[cur[c].kind]

(* C3: the registry always has an AnyRequest entry, every lookup yields a *)
(* handler, and no dispatcher ends in the 'no handler' panic.             *)
C3_FallbackAlwaysRegistered ==
  /\ AnyRequest \in DOMAIN handlers
  /\ fatal # "no handler"
  /\ \A c \in Conns : Resolved(c) => fn[c].ok

C3_Witness ==
  \E c \in Conns :
    /\ dpc[c] = "decode"
    /\ cur[c].kind \notin DOMAIN handlers
    /\ fn[c] = [ok |-> TRUE, h |-> handlers[AnyRequest]]
    /\ handlers[AnyRequest] \in UserHandlers
    /\ ln.state = "closed"

(* C4: what a lookup yields is the handler of the latest Handle call that *)
(* has returned for the kind (for AnyRequest, if none has): never that of *)
(* an earlier registration.                                               *)
C4_NoStaleReads ==
  \A c \in Conns :
    dpc[c] = "runlock" =>
      fn[c] = [ok |-> TRUE,
               h |-> IF cur[c].kind \in DOMAIN returned
                       THEN returned[cur[c].kind]
                       ELSE returned[AnyRequest]]

C4_Witness ==
  \E c \in Conns, t \in Callers :
    /\ dpc[c] = "runlock"
    /\ cur[c].kind \in DOMAIN returned
    /\ fn[c].h = returned[cur[c].kind]
    /\ fn[c].h \in UserHandlers
    /\ cpc[t] = "H_lock" /\ carg[t].kind = cur[c].kind /\ carg[t].h # fn[c].h

(* C5: a registration changes the entry of its kind only, to the handler *)
(* registered, and removes none; it does not change the handler a         *)
(* connection has already resolved, and the handler invoked for a request *)
(* is the one resolved for it, whatever was registered since; a lookup    *)
(* yields a whole entry, the one before or the one after a registration.  *)
C5_Entry(hs, kind) == IF kind \in DOMAIN hs THEN hs[kind] ELSE hs[AnyRequest]

C5_Lookup ==
  \A c \in Conns :
    dpc[c] = "runlock" =>
      /\ fn[c].ok
      /\ fn[c].h \in {C5_Entry(returned, cur[c].kind),
                      C5_Entry(handlers, cur[c].kind)}

C5_Step ==
  /\ DOMAIN handlers \subseteq DOMAIN handlers'
  /\ \A k \in DOMAIN handlers' :
       (k \notin DOMAIN handlers \/ handlers'[k] # handlers[k]) =>
         \E t \in Callers :
           /\ cpc[t] \in {"idle", "H_lock"} /\ cpc'[t] = "H_unlock"
           /\ carg'[t] = [kind |-> k, h |-> handlers'[k]]
  /\ \A c \in Conns :
       /\ (Resolved(c) /\ Resolved(c)' /\ nread'[c] = nread[c]) => fn'[c] = fn[c]
       /\ inv'[c] # inv[c] =>
            inv'[c] = Append(inv[c], [idx |-> nread[c], h |-> fn[c].h,
                                      req |-> request[c]])

C5_RegistrationAffectsLaterRequests == [](C5_Lookup) /\ [][C5_Step]_vars

C5_Witness ==
  \E c \in Conns :
    /\ dpc[c] = "write"
    /\ fn[c].h \in UserHandlers
    /\ cur[c].kind \in DOMAIN returned
    /\ returned[cur[c].kind] \in UserHandlers \ {fn[c].h}
    /\ \E j \in InvOf(c, nread[c]) : inv[c][j].h = fn[c].h

(* C6: on a connection the requests are served one at a time and in the  *)
(* order read: a frame is read only at the head of the loop, when the    *)
(* handler of the request before it has returned and its response, if    *)
(* any, is written; a handler is invoked once per request, for the       *)
(* request read last; the responses are in the order of their requests.  *)
C6_Ascending(log) == \A j \in 1..(Len(log) - 1) : log[j].idx < log[j + 1].idx

C6_Order ==
  \A c \in Conns :
    /\ C6_Ascending(inv[c]) /\ C6_Ascending(out[c])
    /\ \A j \in 1..Len(inv[c]) : inv[c][j].idx <= nread[c]
    /\ \A j \in 1..Len(out[c]) : InvOf(c, out[c][j].idx) # {}

C6_Step ==
  \A c \in Conns :
    /\ nread'[c] # nread[c] =>
         /\ nread'[c] = nread[c] + 1
         /\ dpc[c] = "read"
         /\ nread[c] > 0 =>
              /\ InvOf(c, nread[c]) # {}
              /\ response[c] # NilVal => OutOf(c, nread[c]) # {}
    /\ inv'[c] # inv[c] =>
         /\ InvOf(c, nread[c]) = {}
         /\ inv'[c] = Append(inv[c], inv'[c][Len(inv'[c])])
         /\ inv'[c][Len(inv'[c])].idx = nread[c]
    /\ out'[c] # out[c] =>
         /\ out'[c] = Append(out[c], out'[c][Len(out'[c])])
         /\ out'[c][Len(out'[c])].idx = nread[c]

C6_SequentialPerConnection == [](C6_Order) /\ [][C6_Step]_vars

C6_Witness ==
  \E c \in Conns :
    /\ Len(out[c]) = 2
    /\ out[c][1].idx = 1 /\ out[c][2].idx = 2
    /\ out[c][1].b # out[c][2].b

(* C7: a step of Close changes the lock and the listener only, which it *)
(* closes: not the registry, not a connection; and with the listener    *)
(* closed every accepted connection can still take its next step, a     *)
(* read of the next frame included.                                     *)
C7_CloseStep(t) ==
  /\ cpc'[t] # cpc[t]
  /\ {cpc[t], cpc'[t]} \cap {"C_lock", "C_unlock", "C_panic"} # {}

C7_Step ==
  \A t \in Callers :
    C7_CloseStep(t) =>
      /\ UNCHANGED <<handlers, Processed, acceptVars, connVars, logVars>>
      /\ ln' = ln \/ (ln # NilListener /\ ln' = [ln EXCEPT !.state = "closed"])

C7_LockFree == mu.w = NoCaller /\ PendingWriters = {}

C7_Continues ==
  \A c \in Conns :
    (ln.state = "closed" /\ Running /\ C7_LockFree) =>
      /\ (dpc[c] = "read" /\ TotalRead < PeerReqs) =>
           ENABLED (\E f \in PeerFrames : ReadFrame(c, f))
      /\ (dpc[c] \in {"rlock", "runlock", "decode", "invoke", "d_body", "write"}) =>
           ENABLED ConnStep(c)

C7_CloseLeavesConnections == [](C7_Continues) /\ [][C7_Step]_vars

C7_Witness ==
  /\ ln.state = "closed" /\ Running
  /\ \A t \in Callers : cpc[t] = "idle"
  /\ \E c \in Conns :
       /\ dpc[c] = "read" /\ nread[c] = 1 /\ out[c] # <<>>
       /\ ENABLED (\E f \in PeerFrames : ReadFrame(c, f))

(* C8: the listener is bound at most once and one accept loop is launched *)
(* with it; a Start that runs with the listener set panics with 'server   *)
(* already started' and binds and launches nothing; the listener, once    *)
(* set, is not cleared and not replaced.                                  *)
C8_Once ==
  /\ binds <= 1 /\ loops = binds
  /\ ln = NilListener <=> binds = 0
  /\ apc = "none" <=> loops = 0

C8_StartRan(t) ==
  cpc[t] \in {"idle", "S_lock"} /\ cpc'[t] \in {"S_unlock", "S_panic"}

C8_Step ==
  /\ ln # NilListener => (ln' # NilListener /\ ln'.addr = ln.addr)
  /\ \A t \in Callers :
       C8_StartRan(t) =>
         IF ln # NilListener
           THEN /\ cpc'[t] = "S_panic"
                /\ cres'[t] = "server already started"
                /\ UNCHANGED <<ln, binds, loops, acceptVars>>
           ELSE \/ /\ cpc'[t] = "S_unlock"
                   /\ ln'.state = "open"
                   /\ binds' = 1 /\ loops' = 1 /\ apc' = "accept"
                \/ /\ cpc'[t] = "S_panic"
                   /\ cres'[t] = "cannot start server"
                   /\ UNCHANGED <<ln, binds, loops, acceptVars>>

C8_StartBindsOnce == [](C8_Once) /\ [][C8_Step]_vars

C8_Witness ==
  \E t \in Callers :
    /\ cpc[t] = "S_panic" /\ cres[t] = "server already started"
    /\ ln.state = "closed" /\ binds = 1 /\ loops = 1

(* The request c read last was handed to the default responder, which *)
(* has returned.                                                       *)
DefaultServed(c, kind) ==
  /\ nread[c] > 0 /\ cur[c].kind = kind
  /\ fn[c].h = DefaultHandler
  /\ request[c].type = EncOf(kind)
  /\ dpc[c] \in {"write", "read", "closed"}
  /\ InvOf(c, nread[c]) # {}

(* The response has the topics and the partitions of the request, by *)
(* position.                                                          *)
SameShape(resp, req) ==
  /\ DOMAIN resp.Topics = 1..Len(req.Topics)
  /\ \A ti \in 1..Len(req.Topics) :
       /\ resp.Topics[ti].Name = req.Topics[ti].Name
       /\ DOMAIN resp.Topics[ti].Partitions = 1..Len(req.Topics[ti].Partitions)
       /\ \A pi \in 1..Len(req.Topics[ti].Partitions) :
            resp.Topics[ti].Partitions[pi].ID = req.Topics[ti].Partitions[pi].ID

AllPartitions(resp) ==
  UNION {{resp.Topics[ti].Partitions[pi] :
            pi \in 1..Len(resp.Topics[ti].Partitions)} :
           ti \in 1..Len(resp.Topics)}

(* C9: the default response to a Fetch request of N topics with M_i      *)
(* partitions has N topics, the i-th with the name of the request's i-th *)
(* and M_i partitions, the j-th with the id of the request's j-th, the   *)
(* error 'unknown topic or partition', tip offset -1 and no messages;    *)
(* it is what is written to the connection.                              *)
C9_DefaultFetchResponse ==
  \A c \in Conns :
    DefaultServed(c, FetchRequest) =>
      /\ response[c].type = "FetchResp"
      /\ SameShape(response[c], request[c])
      /\ \A p \in AllPartitions(response[c]) :
           /\ DOMAIN p = {"ID", "Err", "TipOffset", "Messages"}
           /\ p.Err = ErrUnknownTopicOrPartition
           /\ p.TipOffset = -1
           /\ p.Messages = <<>>
      /\ Served(c) =>
           /\ Cardinality(OutOf(c, nread[c])) = 1
           /\ \A j \in OutOf(c, nread[c]) : out[c][j].b = response[c]

C9_Witness ==
  \E c \in Conns :
    /\ DefaultServed(c, FetchRequest) /\ Served(c)
    /\ Len(cur[c].body.topics) = 2
    /\ \E ti \in 1..2 : cur[c].body.topics[ti][2] = <<>>
    /\ \E ti \in 1..2 : cur[c].body.topics[ti][2] = <<1, 0>>
    /\ \E j \in OutOf(c, nread[c]) :
         Cardinality(AllPartitions(out[c][j].b)) = 2

(* C10: the default response to a Produce request has the topics and the *)
(* partitions of the request, names and ids position by position, every  *)
(* partition with the error 'unknown topic or partition' and offset -1;  *)
(* it is what is written to the connection.                              *)
C10_DefaultProduceResponse ==
  \A c \in Conns :
    DefaultServed(c, ProduceRequest) =>
      /\ response[c].type = "ProduceResp"
      /\ SameShape(response[c], request[c])
      /\ \A p \in AllPartitions(response[c]) :
           /\ DOMAIN p = {"ID", "Err", "Offset"}
           /\ p.Err = ErrUnknownTopicOrPartition
           /\ p.Offset = -1
      /\ Served(c) =>
           /\ Cardinality(OutOf(c, nread[c])) = 1
           /\ \A j \in OutOf(c, nread[c]) : out[c][j].b = response[c]

C10_Witness ==
  \E c \in Conns :
    /\ DefaultServed(c, ProduceRequest) /\ Served(c)
    /\ Len(cur[c].body.topics) = 2
    /\ cur[c].body.topics[1][2] = <<0, 1>>
    /\ cur[c].body.topics[2][2] = <<1>>
    /\ \E j \in OutOf(c, nread[c]) :
         /\ out[c][j].b.Topics[1].Name = cur[c].body.topics[1][1]
         /\ Cardinality(AllPartitions(out[c][j].b)) = 2


(* C11: a Metadata request the default responder serves is answered with *)
(* one broker, node id 1, whose host and port are those HostPort()       *)
(* reports for the listener, open or closed, and with no topics; the     *)
(* listener is set whenever a dispatcher exists, so the responder does   *)
(* not fail on it.                                                       *)
C11_Returns ==
  \A c \in Conns :
    (dpc[c] = "d_body" /\ request[c].type = "MetadataReq"
       /\ c \in mu.r /\ c \notin mu'.r) =>
      /\ dpc'[c] = "write" /\ fatal' = fatal
      /\ response'[c].type = "MetadataResp"

C11_Response ==
  \A c \in Conns :
    /\ dpc[c] # "new" => ln # NilListener
    /\ DefaultServed(c, MetadataRequest) =>
         /\ HostPort(ln).panic = "none"
         /\ response[c].type = "MetadataResp"
         /\ response[c].Brokers =
              <<[NodeID |-> 1, Host |-> HostPort(ln).host,
                 Port |-> HostPort(ln).port]>>
         /\ response[c].Topics = <<>>
         /\ Served(c) =>
              /\ Cardinality(OutOf(c, nread[c])) = 1
              /\ \A j \in OutOf(c, nread[c]) : out[c][j].b = response[c]

C11_DefaultMetadataResponse == [](C11_Response) /\ [][C11_Returns]_vars

C11_Witness ==
  \E c \in Conns :
    /\ ln.state = "closed"
    /\ DefaultServed(c, MetadataRequest) /\ Served(c)
    /\ \E j \in OutOf(c, nread[c]) :
         /\ out[c][j].b.Brokers[1].Port = 90
         /\ out[c][j].b.Brokers[1].Host = <<"0", ".", "0", ".", "0", ".", "0">>


(* C12: the default responder answers a Fetch, Produce or Metadata      *)
(* request with the correlation id of the request; the dispatcher hands *)
(* the handler the request as decoded and writes the response as the    *)
(* handler returned it.                                                 *)
Correlated == {FetchRequest, ProduceRequest, MetadataRequest}

C12_CorrelationIDsKept ==
  \A c \in Conns :
    /\ \A k \in Correlated :
         DefaultServed(c, k) =>
           /\ response[c].CorrelationID = request[c].CorrelationID
           /\ response[c].CorrelationID = cur[c].body.corr
    /\ \A j \in InvOf(c, nread[c]) :
         /\ inv[c][j].req = DecodeRequest(cur[c].kind, cur[c].body).req
         /\ inv[c][j].req = request[c]
    /\ \A j \in OutOf(c, nread[c]) :
         /\ out[c][j].b = response[c]
         /\ response[c].type # "Custom" =>
              out[c][j].b.CorrelationID = cur[c].body.corr

C12_Witness ==
  \E c \in Conns :
    /\ DefaultServed(c, FetchRequest) /\ Served(c)
    /\ cur[c].body.corr = 1
    /\ cur[c].body.topics # <<>>
    /\ \E j \in OutOf(c, nread[c]) : out[c][j].b.CorrelationID = 1


(* C13: the default responder ends an Offset, ConsumerMetadata,          *)
(* OffsetCommit or OffsetFetch request in the panic 'not implemented',   *)
(* with no response and no write; a request of such a kind resolved      *)
(* after a Handle for its kind, or for AnyRequest, has returned is not   *)
(* given to the default responder, and only the default responder ends   *)
(* in that panic.                                                        *)
UnimplementedKinds ==
  {OffsetRequest, ConsumerMetadataRequest, OffsetCommitRequest,
   OffsetFetchRequest}

EmptyReq(k) == [type |-> EncOf(k), CorrelationID |-> 0, Topics |-> <<>>]

Overridden(k) ==
  k \in DOMAIN returned \/ returned[AnyRequest] # DefaultHandler

C13_NoResponse ==
  /\ \A k \in UnimplementedKinds :
       DefaultResponse(EmptyReq(k), ln) =
         [panic |-> "not implemented", resp |-> NilVal]
  /\ \A c \in Conns, k \in UnimplementedKinds :
       /\ ~DefaultServed(c, k)
       /\ (Resolved(c) /\ cur[c].kind = k /\ fn[c].h = DefaultHandler) =>
            OutOf(c, nread[c]) = {}

C13_Step ==
  /\ \A c \in Conns :
       /\ (dpc[c] = "d_body" /\ cur[c].kind \in UnimplementedKinds
             /\ c \in mu.r /\ c \notin mu'.r) =>
            /\ fatal' = "not implemented"
            /\ dpc'[c] = "d_body"
            /\ response'[c] = response[c] /\ out' = out
       /\ (dpc[c] = "rlock" /\ dpc'[c] = "runlock"
             /\ cur[c].kind \in UnimplementedKinds
             /\ Overridden(cur[c].kind)) =>
            fn'[c].h # DefaultHandler
  /\ (fatal = "none" /\ fatal' = "not implemented") =>
       \E c \in Conns :
         /\ dpc[c] = "d_body" /\ fn[c].h = DefaultHandler
         /\ cur[c].kind \in UnimplementedKinds

C13_UnimplementedKindsAreFatal == [](C13_NoResponse) /\ [][C13_Step]_vars

C13_Witness ==
  \E c, d \in Conns :
    /\ fatal = "not implemented"
    /\ dpc[c] = "d_body" /\ cur[c].kind = OffsetRequest
    /\ fn[c].h = DefaultHandler /\ out[c] = <<>>
    /\ Served(d) /\ cur[d].kind = OffsetRequest
    /\ fn[d].h \in UserHandlers /\ OutOf(d, nread[d]) # {}


(* A Close call on the started server has returned and no call is under way. *)
CloseReturned == ln.state = "closed" /\ \A t \in Callers : cpc[t] = "idle"

OneDispatcher ==
  \A c \in Conns :
    /\ dpc[c] \notin {"new", "accepted"} => dpc'[c] \notin {"new", "accepted"}
    /\ dpc[c] = "accepted" => dpc'[c] \in {"accepted", "read"}

LoopExitsSilently ==
  /\ apc = "exited" => apc' = "exited"
  /\ (apc # "exited" /\ apc' = "exited") =>
       /\ ln.state = "closed"
       /\ UNCHANGED <<srvVars, callerVars, connVars, fatal>>

(* C14 as stated: once Close has returned no connection is handed to a *)
(* dispatcher, the accept loop ends silently, and each accepted        *)
(* connection got one dispatcher.                                      *)
C14_NoDispatcherAfterClose ==
  /\ [][/\ CloseReturned =>
             \A c \in Conns : dpc[c] = "accepted" => dpc'[c] = "accepted"
        /\ OneDispatcher /\ LoopExitsSilently]_vars
  /\ [](apc = "exited" => \A c \in Conns : dpc[c] # "accepted")
  /\ (CloseReturned ~> (apc = "exited" \/ ~Running))

(* C14, amended: on the closed listener no connection is accepted; a    *)
(* connection accepted before is handed to its dispatcher, possibly     *)
(* after Close has returned; the accept loop then ends on the accept    *)
(* error, silently, unless a panic ends the process first; when it has  *)
(* ended every accepted connection has got its one dispatcher.          *)
C14_NoAcceptAfterClose ==
  /\ [][/\ ln.state = "closed" =>
             \A c \in Conns : dpc[c] = "new" => dpc'[c] = "new"
        /\ OneDispatcher /\ LoopExitsSilently]_vars
  /\ [](apc = "exited" => \A c \in Conns : dpc[c] # "accepted")
  /\ (CloseReturned ~> (apc = "exited" \/ ~Running))

C14_Witness ==
  /\ CloseReturned /\ Running /\ apc = "exited"
  /\ \E c \in Conns : dpc[c] = "read" /\ nread[c] = 0
  /\ \E c \in Conns : dpc[c] = "new"


(* The fields of connection c. *)
ConnOf(c) ==
  <<dpc[c], cur[c], fn[c], request[c], response[c], nread[c], inv[c], out[c]>>

(* C15: the loop of a connection ends, short of a panic, only at a read *)
(* that fails: between two requests, with no handler invoked and        *)
(* nothing written by that step, the registry, the listener and the     *)
(* other connections as they were; a write that fails leaves the loop   *)
(* running, back at its read.                                           *)
C15_Step ==
  \A c \in Conns :
    /\ dpc[c] = "closed" => ConnOf(c)' = ConnOf(c)
    /\ (dpc[c] # "closed" /\ dpc'[c] = "closed") =>
         /\ dpc[c] = "read"
         /\ nread[c] > 0 => InvOf(c, nread[c]) # {}
         /\ inv' = inv /\ out' = out
         /\ UNCHANGED <<srvVars, acceptVars, fatal>>
         /\ \A d \in Conns \ {c} : ConnOf(d)' = ConnOf(d)
    /\ (out'[c] # out[c] /\ ~out'[c][Len(out'[c])].ok) =>
         /\ dpc[c] = "write" /\ dpc'[c] = "read"
         /\ fatal' = fatal

C15_ReadFailureEndsLoop == [][C15_Step]_vars

C15_Witness ==
  \E c \in Conns :
    /\ dpc[c] = "closed" /\ Running
    /\ nread[c] = 2 /\ Len(out[c]) = 2
    /\ ~out[c][1].ok
    /\ \E d \in Conns \ {c} : dpc[d] = "read"


(* The first request of c is read and not yet decoded. *)
FirstUndecoded(c) ==
  nread[c] = 1 /\ dpc[c] \in {"rlock", "runlock", "decode"}

(* C16 as stated: the handler is resolved once the request is decoded, *)
(* so no lookup has been made for a request that is not decoded yet,   *)
(* one whose decoding failed included.                                 *)
C16_DecodeBeforeResolve ==
  \A c \in Conns : FirstUndecoded(c) => fn[c] = NoFn

(* The order of the steps of an iteration in the code. *)
LoopOrder ==
  {<<"read", "rlock">>, <<"rlock", "runlock">>, <<"runlock", "decode">>,
   <<"decode", "invoke">>, <<"invoke", "write">>, <<"invoke", "d_body">>,
   <<"d_body", "write">>, <<"write", "read">>}

(* C16, amended: an iteration reads the frame, resolves the handler    *)
(* under the read lock, decodes the body, invokes the handler resolved *)
(* and writes; the handler that serves a request is the one registered *)
(* when it was resolved, before the decoding, and a decode failure is  *)
(* raised after the lookup.                                            *)
C16_Step ==
  /\ \A c \in Conns :
       /\ (dpc'[c] # dpc[c] /\ dpc[c] \notin {"new", "accepted"}
             /\ dpc'[c] # "closed") => <<dpc[c], dpc'[c]>> \in LoopOrder
       /\ fn'[c] # fn[c] =>
            /\ dpc[c] = "rlock" /\ dpc'[c] = "runlock"
            /\ fn'[c] = Resolve(handlers, cur[c].kind)
       /\ (dpc[c] = "decode" /\ dpc'[c] = "invoke") =>
            /\ fn[c].ok
            /\ request'[c] = DecodeRequest(cur[c].kind, cur[c].body).req
       /\ request'[c] # request[c] => dpc[c] = "decode"
       /\ inv'[c] # inv[c] =>
            /\ dpc[c] = "invoke"
            /\ inv'[c][Len(inv'[c])].h = fn[c].h
  /\ (fatal = "none" /\ fatal' = "could not read message") =>
       \E c \in Conns :
         /\ dpc[c] = "decode" /\ fn[c].ok
         /\ DecodeRequest(cur[c].kind, cur[c].body).err

C16_ResolveBeforeDecode ==
  /\ [](\A c \in Conns : dpc[c] \in {"decode", "invoke"} => fn[c].ok)
  /\ [][C16_Step]_vars

C16_Witness ==
  \E c \in Conns :
    /\ fatal = "could not read message"
    /\ dpc[c] = "decode" /\ nread[c] = 1
    /\ fn[c].h \in UserHandlers
    /\ Resolve(handlers, cur[c].kind).h \in UserHandlers \ {fn[c].h}


(* c is serving a frame whose kind is none of the seven, with the *)
(* default responder resolved for it.                             *)
UnknownKind(c) ==
  nread[c] > 0 /\ cur[c].kind \notin SupportedKinds
    /\ fn[c].h = DefaultHandler

(* C17: a frame of a kind outside the seven, resolved to the default    *)
(* responder, is not decoded: the responder is invoked with the nil     *)
(* request and panics on its type ('unknown message type'); nothing is  *)
(* written for it.                                                      *)
C17_State ==
  \A c \in Conns :
    UnknownKind(c) =>
      /\ dpc[c] \in {"invoke", "d_body"} => request[c] = NilVal
      /\ dpc[c] \in {"runlock", "decode", "invoke", "d_body"} =>
           OutOf(c, nread[c]) = {}
      /\ dpc[c] \in {"rlock", "runlock", "decode", "invoke", "d_body"}
      /\ \A j \in InvOf(c, nread[c]) : inv[c][j].req = NilVal

C17_Step ==
  /\ \A c \in Conns :
       (UnknownKind(c) /\ dpc[c] = "d_body" /\ c \in mu.r /\ c \notin mu'.r) =>
         /\ fatal' = "unknown message type"
         /\ dpc'[c] = "d_body" /\ out' = out /\ response' = response
  /\ (fatal = "none" /\ fatal' = "could not read message") =>
       \E c \in Conns : dpc[c] = "decode" /\ cur[c].kind \in SupportedKinds
  /\ (fatal = "none" /\ fatal' = "unknown message type") =>
       \E c \in Conns : UnknownKind(c) /\ dpc[c] = "d_body"

C17_UnknownKindIsFatal == [](C17_State) /\ [][C17_Step]_vars

C17_Witness ==
  \E c \in Conns :
    /\ fatal = "unknown message type"
    /\ UnknownKind(c) /\ dpc[c] = "d_body"
    /\ nread[c] = 2 /\ Len(inv[c]) = 2
    /\ inv[c][1].req # NilVal /\ inv[c][2].req = NilVal
    /\ OutOf(c, 2) = {}


(* C18: Processed is 0 after NewServer and no operation changes it. *)
C18_ProcessedStaysZero == [](Processed = 0) /\ [][Processed' = Processed]_vars

C18_Witness ==
  /\ Processed = 0
  /\ ln.state = "closed" /\ apc = "exited"
  /\ handlers # NewServer
  /\ \E c \in Conns : out[c] # <<>> /\ dpc[c] = "closed"


(* c holds no lock where it can block: at a read, at a write, in a *)
(* handler of the test.                                            *)
MayBlock(c) ==
  \/ dpc[c] \in {"read", "write"}
  \/ dpc[c] = "invoke" /\ fn[c].h \in UserHandlers

WaitsForLock(t) == cpc[t] \in {"H_lock", "S_lock", "C_lock"}

(* C19: a dispatcher holds the read lock during the lookup and inside    *)
(* the default responder only, never at a read, at a write or in a       *)
(* handler of the test; with every connection stopped at such a point    *)
(* and no writer in, the lock is free: a waiting Handle, Start or Close  *)
(* goes on and a connection at its lookup is served.                     *)
C19_NoLockWhileBlocked ==
  /\ \A c \in Conns :
       /\ c \in mu.r => dpc[c] \in {"runlock", "d_body"}
       /\ MayBlock(c) => c \notin mu.r
  /\ \A c \in Conns :
       (Running /\ mu.w = NoCaller /\ MayBlock(c)
          /\ \A d \in Conns \ {c} : d \notin mu.r) =>
         /\ mu.r = {}
         /\ \A t \in Callers : WaitsForLock(t) => ENABLED CallerStep(t)
         /\ \A d \in Conns \ {c} :
              (dpc[d] = "rlock" /\ PendingWriters = {}) =>
                ENABLED ResolveHandler(d)

C19_Witness ==
  \E c \in Conns, t \in Callers :
    /\ Running
    /\ dpc[c] = "invoke" /\ fn[c].h \in UserHandlers
    /\ cpc[t] = "H_lock" /\ mu.w = NoCaller
    /\ ENABLED HandleLock(t)


(* No operation that takes the lock is under way. *)
NoOperation ==
  /\ \A t \in Callers : cpc[t] = "idle"
  /\ \A c \in Conns : dpc[c] \notin {"runlock", "d_body"}

(* C20: every operation that takes the lock releases it on every way  *)
(* out, the panics included, so with no operation under way the lock  *)
(* is free and a Handle, Start or Close can take it.                  *)
C20_LockReleasedOnEveryExit ==
  (Running /\ NoOperation) => (mu.w = NoCaller /\ mu.r = {} /\ CanLock)

====
